---- MODULE Spec2Model ----
(***************************************************************************)
(* Coffee Shop backend: the auth guard (auth/auth.py), the Drink table     *)
(* (database/models.py) and the request handlers (api.py).                 *)
(*                                                                         *)
(* A handler is split only where it talks to the database: the guard, the  *)
(* validation with its SELECT, the mutation with its commit, and the       *)
(* response with its SELECT of the committed row.  Requests of different   *)
(* worker threads interleave at these points.                              *)
(***************************************************************************)
EXTENDS Integers, Sequences, FiniteSets, TLC

\* ------------------------------------------------------------------------
\* Bounds
\* ------------------------------------------------------------------------
\* Largest primary key the model lets an insert assign.
MaxId == 3

\* ------------------------------------------------------------------------
\* JSON values, json.dumps and json.loads
\* ------------------------------------------------------------------------
\* A JSON value is a record [t, s, n, items]; t is its Python type.
JNone == [t |-> "none", s |-> "", n |-> 0, items |-> <<>>]
JStr(s) == [t |-> "str", s |-> s, n |-> 0, items |-> <<>>]
JNum(n) == [t |-> "num", s |-> "", n |-> n, items |-> <<>>]
JList(xs) == [t |-> "list", s |-> "", n |-> 0, items |-> xs]
JMember(k, v) == [t |-> "member", s |-> k, n |-> 0, items |-> <<v>>]
JObj(ms) == [t |-> "dict", s |-> "", n |-> 0, items |-> ms]

\* One lexical token of a JSON text.
Tok(c, s, n) == [c |-> c, s |-> s, n |-> n]
Punct(c) == Tok(c, "", 0)
\* A comma with the white space the text has after it.
Comma(space) == Tok(",", space, 0)

RECURSIVE json_dumps(_)
RECURSIVE DumpItems(_, _)
\* The elements of a list or the members of a dict, comma separated.
DumpItems(xs, i) ==
    IF i > Len(xs) THEN <<>>
    ELSE (IF i > 1 THEN <<Comma(" ")>> ELSE <<>>)
         \o json_dumps(xs[i]) \o DumpItems(xs, i + 1)

\* json.dumps(value): the text stored in Drink.recipe, with the default
\* separators ", " and ": ".
json_dumps(v) ==
    CASE v.t = "str" -> <<Tok("str", v.s, 0)>>
      [] v.t = "num" -> <<Tok("num", "", v.n)>>
      [] v.t = "none" -> <<Punct("null")>>
      [] v.t = "list" -> <<Punct("[")>> \o DumpItems(v.items, 1) \o <<Punct("]")>>
      [] v.t = "dict" -> <<Punct("{")>> \o DumpItems(v.items, 1) \o <<Punct("}")>>
      [] v.t = "member" ->
            <<Tok("str", v.s, 0), Punct(":")>> \o json_dumps(v.items[1])

RECURSIVE ParseValue(_, _)
RECURSIVE ParseElems(_, _, _)
RECURSIVE ParseMembers(_, _, _)
\* The elements of a list from position i, up to the closing bracket.
ParseElems(text, i, acc) ==
    LET r == ParseValue(text, i) IN
    IF text[r.next].c = ","
    THEN ParseElems(text, r.next + 1, Append(acc, r.v))
    ELSE [v |-> JList(Append(acc, r.v)), next |-> r.next + 1]

\* The members of a dict from position i, up to the closing brace.
ParseMembers(text, i, acc) ==
    LET r == ParseValue(text, i + 2)
        m == JMember(text[i].s, r.v)
        \* a repeated key keeps its first position and takes the last value
        merged == IF \E j \in 1..Len(acc) : acc[j].s = m.s
                  THEN [j \in 1..Len(acc) |-> IF acc[j].s = m.s THEN m ELSE acc[j]]
                  ELSE Append(acc, m)
    IN
    IF text[r.next].c = ","
    THEN ParseMembers(text, r.next + 1, merged)
    ELSE [v |-> JObj(merged), next |-> r.next + 1]

\* One JSON value starting at position i; next is the position after it.
ParseValue(text, i) ==
    CASE text[i].c = "str" -> [v |-> JStr(text[i].s), next |-> i + 1]
      [] text[i].c = "num" -> [v |-> JNum(text[i].n), next |-> i + 1]
      [] text[i].c = "null" -> [v |-> JNone, next |-> i + 1]
      [] text[i].c = "[" ->
            IF text[i + 1].c = "]" THEN [v |-> JList(<<>>), next |-> i + 2]
            ELSE ParseElems(text, i + 1, <<>>)
      [] text[i].c = "{" ->
            IF text[i + 1].c = "}" THEN [v |-> JObj(<<>>), next |-> i + 2]
            ELSE ParseMembers(text, i + 1, <<>>)

\* json.loads(text)
json_loads(text) == ParseValue(text, 1).v

\* Python's key in d and d[key] on a dict.
HasKey(d, k) == \E j \in 1..Len(d.items) : d.items[j].s = k
GetItem(d, k) ==
    LET j == CHOOSE j \in 1..Len(d.items) : d.items[j].s = k IN d.items[j].items[1]

\* An ingredient record {"name": .., "color": .., "parts": ..}.
Ingredient(name, color, parts) ==
    JObj(<<JMember("name", JStr(name)), JMember("color", JStr(color)),
           JMember("parts", JNum(parts))>>)

\* ------------------------------------------------------------------------
\* auth/auth.py
\* ------------------------------------------------------------------------
\* The outcome of a call: a return value or a raised exception.
Returned(v) == [ok |-> TRUE, value |-> v]
Raised(exc, status, code) == [ok |-> FALSE, exc |-> exc, status |-> status, code |-> code]
AuthError(code, status) == Raised("AuthError", status, code)

\* str.lower() on the scheme words the model sends.
Lower(w) ==
    CASE w = "Bearer" -> "bearer"
      [] w = "BEARER" -> "bearer"
      [] w = "Basic" -> "basic"
      [] OTHER -> w

\* An Authorization header: set says the header is present, empty that its
\* value is the empty string, parts is the value split on whitespace.
NoHeader == [set |-> FALSE, empty |-> TRUE, parts |-> <<>>]
Header(parts) == [set |-> TRUE, empty |-> FALSE, parts |-> parts]
EmptyHeader == [set |-> TRUE, empty |-> TRUE, parts |-> <<>>]

get_token_auth_header(auth) ==
    IF ~auth.set \/ auth.empty
    THEN AuthError("authorization_header_missing", 401)
    ELSE IF Len(auth.parts) = 0
    THEN Raised("IndexError", 500, "list index out of range")
    ELSE IF Lower(auth.parts[1]) # "bearer"
    THEN AuthError("invalid_header", 401)
    ELSE IF Len(auth.parts) = 1
    THEN AuthError("invalid_header", 401)
    ELSE IF Len(auth.parts) > 2
    THEN AuthError("invalid_header", 401)
    ELSE Returned(auth.parts[2])

check_permissions(permission, payload) ==
    IF "permissions" \notin DOMAIN payload
    THEN AuthError("invalid_claims", 400)
    ELSE IF permission \notin payload["permissions"]
    THEN AuthError("unauthorized", 401)
    ELSE Returned(TRUE)

\* The permissions the handlers ask for.
Permissions == {"get:drinks-detail", "post:drinks", "patch:drinks", "delete:drinks"}

\* The tokens the model sends, named by what the JWT library finds in them.
Tokens == {"garbage", "nokid", "otherkid", "expired", "wrongaud", "badsig",
           "noperms", "emptyperms", "barista", "manager"}

\* jwt.get_unverified_header(token)
jwt_get_unverified_header(token) ==
    CASE token = "garbage" -> Raised("JWTError", 500, "Error decoding token headers.")
      [] token = "nokid" -> Returned([alg |-> "RS256"])
      [] token = "otherkid" -> Returned([alg |-> "RS256", kid |-> "k9"])
      [] OTHER -> Returned([alg |-> "RS256", kid |-> "k1"])

\* The claim set a token carries.
Claims(token) ==
    CASE token = "noperms" -> [sub |-> "user"]
      [] token = "emptyperms" -> [sub |-> "user", permissions |-> {}]
      [] token = "barista" -> [sub |-> "user", permissions |-> {"get:drinks-detail"}]
      [] OTHER -> [sub |-> "user", permissions |-> Permissions]

\* jwt.decode(token, rsa_key, algorithms, audience, issuer)
jwt_decode(token) ==
    CASE token = "expired" -> Raised("ExpiredSignatureError", 500, "Signature has expired.")
      [] token = "wrongaud" -> Raised("JWTClaimsError", 500, "Invalid audience")
      [] token = "badsig" -> Raised("JWTError", 500, "Signature verification failed.")
      [] OTHER -> Returned(Claims(token))

\* The key set of the identity provider: reachable or not, and its key ids.
JwksUp == [up |-> TRUE, keys |-> {"k1"}]
JwksDown == [up |-> FALSE, keys |-> {}]

verify_decode_jwt(token, jwks) ==
    IF ~jwks.up THEN Raised("URLError", 500, "urlopen error")
    ELSE LET unverified_header == jwt_get_unverified_header(token) IN
    IF ~unverified_header.ok THEN unverified_header
    ELSE IF "kid" \notin DOMAIN unverified_header.value
    THEN AuthError("invalid_header", 401)
    ELSE IF unverified_header.value["kid"] \in jwks.keys
    THEN LET payload == jwt_decode(token) IN
         IF payload.ok THEN payload
         ELSE IF payload.exc = "ExpiredSignatureError"
         THEN AuthError("token_expired", 401)
         ELSE IF payload.exc = "JWTClaimsError"
         THEN AuthError("invalid_claims", 401)
         ELSE AuthError("invalid_header", 400)
    ELSE AuthError("invalid_header", 400)

\* Mutant: the guard lets a failure of extraction or verification through
\* with the status the stage chose (500 for an exception Flask does not map).
requires_auth_passthrough(permission, cred) ==
    LET token == get_token_auth_header(cred.auth) IN
    IF ~token.ok THEN token
    ELSE LET payload == verify_decode_jwt(token.value, cred.jwks) IN
    IF ~payload.ok THEN payload
    ELSE LET gate == check_permissions(permission, payload.value) IN
    IF ~gate.ok THEN gate
    ELSE payload

\* Mutant: the guard does not call check_permissions.
requires_auth_nogate(permission, cred) ==
    LET token == get_token_auth_header(cred.auth) IN
    IF ~token.ok THEN Raised("HTTPException", 401, "Unauthorized")
    ELSE LET payload == verify_decode_jwt(token.value, cred.jwks) IN
    IF ~payload.ok THEN Raised("HTTPException", 401, "Unauthorized")
    ELSE payload

\* The wrapper of requires_auth(permission) up to the call of the handler:
\* a returned payload lets the handler run, anything else is the response
\* status (abort(401), or the AuthError handler of api.py).
requires_auth(permission, cred) ==
    LET token == get_token_auth_header(cred.auth) IN
    IF ~token.ok THEN Raised("HTTPException", 401, "Unauthorized")
    ELSE LET payload == verify_decode_jwt(token.value, cred.jwks) IN
    IF ~payload.ok THEN Raised("HTTPException", 401, "Unauthorized")
    ELSE LET gate == check_permissions(permission, payload.value) IN
    IF ~gate.ok THEN gate
    ELSE payload

\* ------------------------------------------------------------------------
\* database/models.py
\* ------------------------------------------------------------------------
\* A row of the drink table: id, title and the recipe column's JSON text.
Row(id, title, recipe) == [id |-> id, title |-> title, recipe |-> recipe]

\* The iteration "for r in json.loads(self.recipe)" of Drink.short: the
\* elements of a list, the keys of a dict, the characters of a string;
\* anything else is not iterable.
Iterate(v) ==
    CASE v.t = "list" -> Returned(v.items)
      [] v.t = "dict" -> Returned([j \in 1..Len(v.items) |-> JStr(v.items[j].s)])
      [] v.t = "str" -> IF v.s = "" THEN Returned(<<>>) ELSE Returned(<<JStr("c")>>)
      [] OTHER -> Raised("TypeError", 500, "object is not iterable")

\* One element of the comprehension of Drink.short:
\* {'color': r['color'], 'parts': r['parts']}.  r['color'] is evaluated
\* first: an r that is no dict raises TypeError, a dict raises KeyError
\* naming the first key it lacks.
ShortItem(r) ==
    IF r.t # "dict" THEN Raised("TypeError", 500, "indices must be integers")
    ELSE IF ~HasKey(r, "color") THEN Raised("KeyError", 500, "color")
    ELSE IF ~HasKey(r, "parts") THEN Raised("KeyError", 500, "parts")
    ELSE Returned(JObj(<<JMember("color", GetItem(r, "color")),
                         JMember("parts", GetItem(r, "parts"))>>))

\* Drink.short(): the comprehension runs over the elements in order and
\* the first element that raises ends it.
short(drink) ==
    LET rs == Iterate(json_loads(drink.recipe)) IN
    IF ~rs.ok THEN rs
    ELSE LET items == [j \in 1..Len(rs.value) |-> ShortItem(rs.value[j])]
             bad == {j \in 1..Len(items) : ~items[j].ok}
         IN IF bad # {}
            THEN items[CHOOSE j \in bad : \A k \in bad : j <= k]
            ELSE Returned([id |-> drink.id, title |-> drink.title,
                           recipe |-> [j \in 1..Len(items) |-> items[j].value]])

\* Drink.long()
long(drink) ==
    Returned([id |-> drink.id, title |-> drink.title,
              recipe |-> json_loads(drink.recipe)])

\* The two drinks db_drop_and_create_all inserts at start-up.  Their
\* recipes are string literals with no space after the comma between the
\* two ingredients: no text json.dumps writes equals them.
RecipeLiteral(first, second) ==
    <<Punct("[")>> \o json_dumps(first) \o <<Comma("")>> \o json_dumps(second)
        \o <<Punct("]")>>
DummyRecipe1 ==
    RecipeLiteral(Ingredient("coffee", "black", 1), Ingredient("milk", "white", 3))
DummyRecipe2 ==
    RecipeLiteral(Ingredient("coffee2", "black2", 2), Ingredient("milk2", "white2", 4))
db_drop_and_create_all ==
    {Row(1, "White Coffee", DummyRecipe1), Row(2, "White Coffee2", DummyRecipe2)}

\* The ids in a table, and the rowid SQLite gives the next inserted row.
Ids(t) == {r.id : r \in t}
MaxRowId(t) == IF t = {} THEN 0 ELSE CHOOSE i \in Ids(t) : \A j \in Ids(t) : j <= i
NextId(t) == MaxRowId(t) + 1

\* Drink.query.all(): the rows in rowid order.
RECURSIVE query_all(_)
query_all(t) ==
    IF t = {} THEN <<>>
    ELSE LET r == CHOOSE r \in t : r.id = MaxRowId(t) IN Append(query_all(t \ {r}), r)

\* Drink.query.filter(...).one_or_none(): the matching rows (at most one).
query_by_title(t, title) == {r \in t : r.title = title}
query_by_id(t, id) == {r \in t : r.id = id}

\* The pending changes of a session (db.session of one worker thread).
\* For an update, setTitle and setRecipe say which columns of the object
\* differ from the values loaded at the lookup: the flush writes the net
\* change of the object and nothing else.
InsertOp(title, recipe) ==
    [kind |-> "insert", id |-> 0, title |-> title, recipe |-> recipe,
     setTitle |-> TRUE, setRecipe |-> TRUE]
UpdateOp(id, setTitle, title, setRecipe, recipe) ==
    [kind |-> "update", id |-> id, title |-> title, recipe |-> recipe,
     setTitle |-> setTitle, setRecipe |-> setRecipe]
DeleteOp(id) ==
    [kind |-> "delete", id |-> id, title |-> "", recipe |-> <<>>,
     setTitle |-> FALSE, setRecipe |-> FALSE]

\* Mutant: an UPDATE writes the title whether or not the request set it.
Execute_title_always(t, op) ==
    CASE op.kind = "insert" ->
            IF query_by_title(t, op.title) # {}
            THEN [ok |-> FALSE, table |-> t]
            ELSE [ok |-> TRUE, table |-> t \cup {Row(NextId(t), op.title, op.recipe)}]
      [] op.kind = "update" ->
            IF query_by_id(t, op.id) = {}
            THEN [ok |-> FALSE, table |-> t]
            ELSE IF \E r \in t : r.id # op.id /\ r.title = op.title
            THEN [ok |-> FALSE, table |-> t]
            ELSE [ok |-> TRUE,
                  table |-> {IF r.id = op.id
                             THEN Row(r.id, op.title,
                                      IF op.setRecipe THEN op.recipe ELSE r.recipe)
                             ELSE r : r \in t}]
      [] op.kind = "delete" ->
            [ok |-> TRUE, table |-> {r \in t : r.id # op.id}]

\* One change of a flush against table t.  title is UNIQUE
\* (models.py:63): an INSERT or UPDATE that would repeat a title fails.
\* An object without a net change emits no UPDATE.  An UPDATE sets the
\* changed columns of the row with the object's primary key, and fails when
\* it matches no row (stale data); a DELETE that matches no row only warns.
Execute(t, op) ==
    CASE op.kind = "insert" ->
            IF query_by_title(t, op.title) # {}
            THEN [ok |-> FALSE, table |-> t]
            ELSE [ok |-> TRUE, table |-> t \cup {Row(NextId(t), op.title, op.recipe)}]
      [] op.kind = "update" ->
            IF ~op.setTitle /\ ~op.setRecipe
            THEN [ok |-> TRUE, table |-> t]
            ELSE IF query_by_id(t, op.id) = {}
            THEN [ok |-> FALSE, table |-> t]
            ELSE IF op.setTitle /\ \E r \in t : r.id # op.id /\ r.title = op.title
            THEN [ok |-> FALSE, table |-> t]
            ELSE [ok |-> TRUE,
                  table |-> {IF r.id = op.id
                             THEN Row(r.id,
                                      IF op.setTitle THEN op.title ELSE r.title,
                                      IF op.setRecipe THEN op.recipe ELSE r.recipe)
                             ELSE r : r \in t}]
      [] op.kind = "delete" ->
            [ok |-> TRUE, table |-> {r \in t : r.id # op.id}]

\* db.session.commit(): flush the pending changes in order, all or nothing.
\* fault is a failure of the database itself.
RECURSIVE Flush(_, _, _)
Flush(t, ops, i) ==
    IF i > Len(ops) THEN [ok |-> TRUE, table |-> t]
    ELSE LET r == Execute(t, ops[i]) IN
         IF r.ok THEN Flush(r.table, ops, i + 1) ELSE r
commit(t, ops, fault) ==
    LET r == Flush(t, ops, 1) IN
    IF fault \/ ~r.ok THEN [ok |-> FALSE, table |-> t] ELSE r

\* db_rollback(): db.session.rollback() drops the pending changes.
db_rollback(pending) == <<>>

\* ------------------------------------------------------------------------
\* api.py: requests, responses and the handlers' checks
\* ------------------------------------------------------------------------
\* A request body: a JSON object with its fields (JsonBody(<<>>) is the
\* object {}), raw bytes that are no JSON, or no body at all.
JsonBody(fields) == [kind |-> "json", fields |-> fields]
RawBody == [kind |-> "data", fields |-> <<>>]
NoBody == [kind |-> "none", fields |-> <<>>]

\* dict(request.form or request.json or request.data).  The form is empty.
\* A JSON object with a field is truthy and dict() copies it.  The object
\* {} is falsy, so the or falls through to request.data, the bytes b'{}':
\* dict() of non-empty bytes raises TypeError, as it does for raw bytes.
\* Without a body request.data is b'' and dict(b'') is the empty dict.
ParseBody(payload) ==
    IF payload.kind = "json" /\ DOMAIN payload.fields # {}
    THEN Returned(payload.fields)
    ELSE IF payload.kind = "none"
    THEN Returned(<<>>)
    ELSE Raised("TypeError", 400, "cannot convert dictionary update sequence")

\* body.get(key, None)
body_get(body, key) == IF key \in DOMAIN body THEN body[key] ELSE JNone

\* A response: the status, the drinks or the deleted id of a success, and
\* whether the database itself failed while the request was served.
Response(status, drinks, deleted, fault) ==
    [status |-> status, drinks |-> drinks, delete |-> deleted, fault |-> fault]
Abort(status) == Response(status, <<>>, 0, FALSE)
NoResponse == Response(0, <<>>, 0, FALSE)

\* The permission each route's decorator asks for ("" for a public route).
RequiredPermission(op) ==
    CASE op = "drinks_detail" -> "get:drinks-detail"
      [] op = "drinks_create" -> "post:drinks"
      [] op = "drinks_patch" -> "patch:drinks"
      [] op = "drinks_delete" -> "delete:drinks"
      [] OTHER -> ""

\* The body of drinks (the short form) and of drinks_detail (the long form).
\* An exception of short() is outside the try block: Flask answers 500.
drinks_list(t, fault, detail) ==
    IF fault THEN Response(422, <<>>, 0, TRUE)
    ELSE IF Cardinality(t) = 0 THEN Abort(404)
    ELSE LET all_drinks == query_all(t)
             views == [j \in 1..Len(all_drinks) |->
                         IF detail THEN long(all_drinks[j]) ELSE short(all_drinks[j])]
         IN IF \E j \in 1..Len(views) : ~views[j].ok THEN Abort(500)
            ELSE Response(200, [j \in 1..Len(views) |-> views[j].value], 0, FALSE)

\* A failure of the database at a statement outside every try block: the
\* exception leaves the handler and Flask answers 500.
OperationalError == Raised("OperationalError", 500, "database failure")

\* Mutant: drinks_create without the lookup of the title.
drinks_create_check_nolookup(payload, t, fault) ==
    LET body == ParseBody(payload) IN
    IF ~body.ok THEN Raised("HTTPException", 400, "Invalid input data.")
    ELSE LET new_title == body_get(body.value, "title")
             new_recipe == body_get(body.value, "recipe")
         IN
         IF new_title = JNone \/ new_recipe = JNone
         THEN Raised("HTTPException", 400, "Missing input field(s).")
         ELSE IF new_title = JStr("") \/ new_recipe = JStr("")
         THEN Raised("HTTPException", 400, "must not be blank.")
         ELSE Returned(InsertOp(new_title.s, json_dumps(new_recipe)))

\* drinks_create up to the insert: the input checks and the title lookup.
\* fault is a failure of the database at the lookup (line 166).
drinks_create_check(payload, t, fault) ==
    LET body == ParseBody(payload) IN
    IF ~body.ok THEN Raised("HTTPException", 400, "Invalid input data.")
    ELSE LET new_title == body_get(body.value, "title")
             new_recipe == body_get(body.value, "recipe")
         IN
         IF new_title = JNone /\ new_recipe = JNone
         THEN Raised("HTTPException", 400, "Missing input field(s).")
         ELSE IF new_title = JNone
         THEN Raised("HTTPException", 400, "title is required.")
         ELSE IF new_recipe = JNone
         THEN Raised("HTTPException", 400, "recipe is required.")
         ELSE IF new_title = JStr("")
         THEN Raised("HTTPException", 400, "The title must not be blank.")
         ELSE IF new_recipe = JStr("")
         THEN Raised("HTTPException", 400, "The recipe must not be blank.")
         ELSE IF fault THEN OperationalError
         ELSE IF query_by_title(t, new_title.s) # {}
         THEN Raised("HTTPException", 400, "That drink already exists.")
         ELSE Returned(InsertOp(new_title.s, json_dumps(new_recipe)))

\* drinks_patch up to the commit: the input checks, the id lookup and the
\* assignments to the loaded object.  fault is a failure of the database at
\* the lookup (line 230).
drinks_patch_check(payload, id, t, fault) ==
    LET body == ParseBody(payload) IN
    \* abort(400, a, b, c) passes three arguments to BadRequest, which takes
    \* two: the TypeError leaves the handler and Flask answers 500.
    IF ~body.ok THEN Raised("TypeError", 500, "__init__() takes from 1 to 3 arguments")
    ELSE LET new_title == body_get(body.value, "title")
             new_recipe == body_get(body.value, "recipe")
         IN
         IF new_title = JNone /\ new_recipe = JNone
         THEN Raised("HTTPException", 400, "Missing input field(s).")
         ELSE IF new_title = JStr("") \/ new_recipe = JStr("")
         THEN Raised("HTTPException", 400, "Bad input field(s).")
         ELSE IF fault THEN OperationalError
         ELSE IF query_by_id(t, id) = {}
         THEN Raised("HTTPException", 404, "id not found in the database.")
         \* lines 237-240 assign on the object loaded at the lookup: an
         \* assigned value equal to the loaded one (the same title, the same
         \* recipe text) is no change of the object
         ELSE LET drink == CHOOSE r \in query_by_id(t, id) : TRUE
                  text == IF new_recipe # JNone THEN json_dumps(new_recipe) ELSE <<>>
              IN Returned(UpdateOp(id,
                                   new_title # JNone /\ new_title.s # drink.title,
                                   new_title.s,
                                   new_recipe # JNone /\ text # drink.recipe,
                                   text))

\* Mutant: drinks_delete without the lookup of the id.
drinks_delete_check_nolookup(id, t, fault) == Returned(DeleteOp(id))

\* drinks_delete up to the delete: the id lookup.  fault is a failure of
\* the database at the lookup (line 279).
drinks_delete_check(id, t, fault) ==
    IF fault THEN OperationalError
    ELSE IF query_by_id(t, id) = {}
    THEN Raised("HTTPException", 404, "id not found in the database.")
    ELSE Returned(DeleteOp(id))

\* The try block of drinks_create, drinks_patch and drinks_delete up to
\* the return of the commit: the change joins the session's pending changes
\* and the session commits; a failure rolls the session back and aborts
\* with 422.  After the commit of a delete the handler answers with the id
\* of the request.  After the commit of an insert or an update the handler
\* goes on to drink.long() (reread), on the object whose primary key is id.
Mutate(t, pending, op, fault) ==
    LET ops == Append(pending, op)
        done == commit(t, ops, fault)
    IN
    IF ~done.ok
    THEN [table |-> t, session |-> db_rollback(ops), reread |-> FALSE, id |-> op.id,
          response |-> Response(422, <<>>, 0, fault)]
    ELSE [table |-> done.table, session |-> <<>>,
          reread |-> op.kind # "delete",
          id |-> IF op.kind = "insert" THEN NextId(t) ELSE op.id,
          response |-> IF op.kind = "delete"
                       THEN Response(200, <<>>, op.id, FALSE)
                       ELSE NoResponse]

\* drink.long() after the commit, still inside the try block.  The commit
\* expired the object (db = SQLAlchemy() keeps expire_on_commit), so the
\* read of drink.id, drink.title and drink.recipe selects the row with the
\* object's primary key again.  A failure of the database, or no row with
\* that key (ObjectDeletedError), goes to the except branch: db_rollback()
\* and abort(422), with the committed change in the table.
Reread(t, pending, id, fault) ==
    IF fault
    THEN [session |-> db_rollback(pending), response |-> Response(422, <<>>, 0, TRUE)]
    ELSE IF query_by_id(t, id) = {}
    THEN [session |-> db_rollback(pending), response |-> Response(422, <<>>, 0, FALSE)]
    ELSE [session |-> pending,
          response |-> Response(200, <<long(CHOOSE r \in t : r.id = id).value>>, 0, FALSE)]

\* ------------------------------------------------------------------------
\* Inputs
\* ------------------------------------------------------------------------
Workers == {"w1", "w2"}

\* A request's credentials: its Authorization header and what the fetch of
\* the identity provider's key set gives while the request is served.
Cred(auth, jwks) == [auth |-> auth, jwks |-> jwks]
Anonymous == Cred(NoHeader, JwksUp)
Manager == Cred(Header(<<"Bearer", "manager">>), JwksUp)

AllCreds ==
    {Anonymous, Manager,
     Cred(EmptyHeader, JwksUp),
     Cred(Header(<<>>), JwksUp),
     Cred(Header(<<"Basic", "manager">>), JwksUp),
     Cred(Header(<<"Bearer">>), JwksUp),
     Cred(Header(<<"Bearer", "manager", "extra">>), JwksUp),
     Cred(Header(<<"BEARER", "manager">>), JwksUp),
     Cred(Header(<<"Bearer", "manager">>), JwksDown)}
    \cup {Cred(Header(<<"Bearer", tk>>), JwksUp) : tk \in Tokens}

\* The recipe of the spec's scenario, and recipes that are no ingredient list.
LatteRecipe == JList(<<Ingredient("coffee", "brown", 1)>>)
BadRecipes == {JStr("water"), Ingredient("water", "clear", 1), JNum(3)}

Request(op, id, cred, payload) ==
    [op |-> op, id |-> id, cred |-> cred, payload |-> payload]
NoRequest == Request("none", 0, Anonymous, NoBody)

\* Well-formed bodies.
LatteBody == JsonBody([title |-> JStr("Latte"), recipe |-> LatteRecipe])
TitleBody == JsonBody([title |-> JStr("Latte")])
WhiteBody == JsonBody([title |-> JStr("White Coffee")])
\* The recipe of the first start-up drink, as a client reads and sends it.
StartRecipe1 == json_loads(DummyRecipe1)
StartBody == JsonBody([recipe |-> StartRecipe1])

\* Bodies with each field absent, blank or set.
FieldBodies(titles, recipes) ==
    {RawBody, NoBody, JsonBody(<<>>)}
    \cup {JsonBody([title |-> tt]) : tt \in titles}
    \cup {JsonBody([recipe |-> rr]) : rr \in recipes}
    \cup {JsonBody([title |-> tt, recipe |-> rr]) : tt \in titles, rr \in recipes}

\* The requests of one client: the two lists, a create with each of
\* creates, and a patch with each of patches and a delete for every id.
Requests(cred, creates, patches) ==
    {Request("drinks", 0, Anonymous, NoBody), Request("drinks_detail", 0, cred, NoBody)}
    \cup {Request("drinks_create", 0, cred, b) : b \in creates}
    \cup {Request("drinks_patch", id, cred, b) : id \in 1..MaxId, b \in patches}
    \cup {Request("drinks_delete", id, cred, NoBody) : id \in 1..MaxId}

\* The requests of the interleaved runs: well-formed, from a manager.
CoreRequests == Requests(Manager, {LatteBody}, {TitleBody})

\* The requests of the interleaved runs in which a patch sets the recipe:
\* worker w1 serves patches of the title or of the recipe, worker w2 every
\* kind of request, its patches setting the recipe.
PatchRequests ==
    {Request("drinks_patch", id, Manager, b) : id \in 1..MaxId, b \in {TitleBody, StartBody}}
RaceRequests(p) ==
    IF p = "w1" THEN PatchRequests ELSE Requests(Manager, {LatteBody}, {StartBody})

\* The requests of the interleaved runs in which patches set two titles.
RenameRequests == Requests(Manager, {LatteBody}, {TitleBody, WhiteBody})

\* Well-formed requests with every kind of credentials.
AuthRequests == UNION {Requests(cred, {LatteBody}, {TitleBody}) : cred \in AllCreds}

\* A manager's requests with every kind of body.
DataRequests ==
    Requests(Manager,
             FieldBodies({JStr(""), JStr("Latte")},
                         {JStr(""), LatteRecipe} \cup BadRecipes),
             FieldBodies({JStr(""), JStr("Latte")},
                         {JStr(""), LatteRecipe, JStr("water"), StartRecipe1}))

\* ------------------------------------------------------------------------
\* State
\* ------------------------------------------------------------------------
VARIABLES
    table,      \* the committed rows of the drink table
    pc,         \* where each worker is in its request
    req,        \* the request each worker serves
    resp,       \* the response of each worker's request
    session,    \* each worker's db.session: its pending changes
    todo        \* the change a handler is about to make, after its checks

vars == <<table, pc, req, resp, session, todo>>

Init ==
    /\ table = db_drop_and_create_all
    /\ pc = [p \in Workers |-> "idle"]
    /\ req = [p \in Workers |-> NoRequest]
    /\ resp = [p \in Workers |-> NoResponse]
    /\ session = [p \in Workers |-> <<>>]
    /\ todo = [p \in Workers |-> DeleteOp(0)]

\* Requests on their way to an insert.
Inserting == {q \in Workers : req[q].op = "drinks_create" /\ pc[q] \in {"guard", "handler", "mutate"}}

\* A request arrives at worker p.  Flask routes it: a public route runs its
\* handler, a protected one its guard.
Receive(p, requests) ==
    /\ pc[p] \in {"idle", "done"}
    /\ \E r \in requests :
          /\ r.op = "drinks_create" => MaxRowId(table) + Cardinality(Inserting) < MaxId
          /\ req' = [req EXCEPT ![p] = r]
          /\ pc' = [pc EXCEPT ![p] = IF RequiredPermission(r.op) = "" THEN "handler" ELSE "guard"]
    /\ resp' = [resp EXCEPT ![p] = NoResponse]
    /\ UNCHANGED <<table, session, todo>>

\* The wrapper of requires_auth around a protected handler.
Guard(p) ==
    /\ pc[p] = "guard"
    /\ LET r == requires_auth(RequiredPermission(req[p].op), req[p].cred) IN
       IF r.ok
       THEN /\ pc' = [pc EXCEPT ![p] = "handler"]
            /\ UNCHANGED resp
       ELSE /\ pc' = [pc EXCEPT ![p] = "done"]
            /\ resp' = [resp EXCEPT ![p] = Abort(r.status)]
    /\ UNCHANGED <<table, req, session, todo>>

\* GET /drinks
Drinks(p) ==
    /\ pc[p] = "handler" /\ req[p].op = "drinks"
    /\ \E fault \in BOOLEAN :
          resp' = [resp EXCEPT ![p] = drinks_list(table, fault, FALSE)]
    /\ pc' = [pc EXCEPT ![p] = "done"]
    /\ UNCHANGED <<table, req, session, todo>>

\* GET /drinks-detail
DrinksDetail(p) ==
    /\ pc[p] = "handler" /\ req[p].op = "drinks_detail"
    /\ \E fault \in BOOLEAN :
          resp' = [resp EXCEPT ![p] = drinks_list(table, fault, TRUE)]
    /\ pc' = [pc EXCEPT ![p] = "done"]
    /\ UNCHANGED <<table, req, session, todo>>

\* The checks of a handler: an abort ends the request, otherwise the
\* change waits in todo for the try block.
Checked(p, r) ==
    /\ IF r.ok
       THEN /\ pc' = [pc EXCEPT ![p] = "mutate"]
            /\ todo' = [todo EXCEPT ![p] = r.value]
            /\ UNCHANGED resp
       ELSE /\ pc' = [pc EXCEPT ![p] = "done"]
            /\ resp' = [resp EXCEPT ![p] =
                          Response(r.status, <<>>, 0, r.exc = "OperationalError")]
            /\ UNCHANGED todo
    /\ UNCHANGED <<table, req, session>>

\* POST /drinks, lines 143-169
CreateCheck(p) ==
    /\ pc[p] = "handler" /\ req[p].op = "drinks_create"
    /\ \E fault \in BOOLEAN :
          Checked(p, drinks_create_check(req[p].payload, table, fault))

\* PATCH /drinks/<id>, lines 213-232
PatchCheck(p) ==
    /\ pc[p] = "handler" /\ req[p].op = "drinks_patch"
    /\ \E fault \in BOOLEAN :
          Checked(p, drinks_patch_check(req[p].payload, req[p].id, table, fault))

\* DELETE /drinks/<id>, lines 278-281
DeleteCheck(p) ==
    /\ pc[p] = "handler" /\ req[p].op = "drinks_delete"
    /\ \E fault \in BOOLEAN :
          Checked(p, drinks_delete_check(req[p].id, table, fault))

\* The try block of a mutating handler up to the return of its commit.
\* An insert or update that committed keeps in todo the primary key of its
\* object for the response.
TryBlock(p) ==
    /\ pc[p] = "mutate"
    /\ \E fault \in BOOLEAN :
          LET m == Mutate(table, session[p], todo[p], fault) IN
          /\ table' = m.table
          /\ session' = [session EXCEPT ![p] = m.session]
          /\ resp' = [resp EXCEPT ![p] = m.response]
          /\ pc' = [pc EXCEPT ![p] = IF m.reread THEN "respond" ELSE "done"]
          /\ todo' = [todo EXCEPT ![p] = IF m.reread
                                         THEN [todo[p] EXCEPT !.id = m.id]
                                         ELSE DeleteOp(0)]
    /\ UNCHANGED req

\* The response of drinks_create and drinks_patch after the commit
\* (lines 179-182, 244-247).
Respond(p) ==
    /\ pc[p] = "respond"
    /\ \E fault \in BOOLEAN :
          LET m == Reread(table, session[p], todo[p].id, fault) IN
          /\ session' = [session EXCEPT ![p] = m.session]
          /\ resp' = [resp EXCEPT ![p] = m.response]
    /\ pc' = [pc EXCEPT ![p] = "done"]
    /\ todo' = [todo EXCEPT ![p] = DeleteOp(0)]
    /\ UNCHANGED <<table, req>>

Insert(p) == req[p].op = "drinks_create" /\ TryBlock(p)
Update(p) == req[p].op = "drinks_patch" /\ TryBlock(p)
Delete(p) == req[p].op = "drinks_delete" /\ TryBlock(p)

Handle(p) ==
    \/ Guard(p)
    \/ Drinks(p)
    \/ DrinksDetail(p)
    \/ CreateCheck(p)
    \/ Insert(p)
    \/ PatchCheck(p)
    \/ Update(p)
    \/ DeleteCheck(p)
    \/ Delete(p)
    \/ Respond(p)

\* Two worker threads serve a manager's well-formed requests concurrently.
Next == \E p \in Workers : Receive(p, CoreRequests) \/ Handle(p)
Spec == Init /\ [][Next]_vars

\* Two worker threads serve creates and deletes concurrently with patches of
\* the title and of the recipe.
NextRace == \E p \in Workers : Receive(p, RaceRequests(p)) \/ Handle(p)
SpecRace == Init /\ [][NextRace]_vars

\* Two worker threads serve patches that move titles between the drinks.
NextRename == \E p \in Workers : Receive(p, RenameRequests) \/ Handle(p)
SpecRename == Init /\ [][NextRename]_vars

\* One worker serves well-formed requests with every kind of credentials.
NextAuth == Receive("w1", AuthRequests) \/ Handle("w1")
SpecAuth == Init /\ [][NextAuth]_vars

\* One worker serves a manager's requests with every kind of body.
NextData == Receive("w1", DataRequests) \/ Handle("w1")
SpecData == Init /\ [][NextData]_vars

\* ------------------------------------------------------------------------
\* Properties of the auth guard
\* ------------------------------------------------------------------------
Protected == {"drinks_detail", "drinks_create", "drinks_patch", "drinks_delete"}

\* The requests that are answered, and that were answered by the guard.
Answered(p) == pc[p] = "done" /\ req[p].op \in Protected

\* What the claims say of a request's credentials, read off the header and
\* the token.
SchemeIsBearer(auth) == Len(auth.parts) >= 1 /\ auth.parts[1] \in {"Bearer", "bearer", "BEARER"}
ExtractorFails(cred) ==
    \/ ~cred.auth.set
    \/ cred.auth.empty
    \/ ~SchemeIsBearer(cred.auth)
    \/ Len(cred.auth.parts) # 2
VerifierFails(cred) ==
    \/ ~cred.jwks.up
    \/ cred.auth.parts[2] \in {"garbage", "nokid", "otherkid", "expired", "wrongaud", "badsig"}
Authenticated(cred) == ~ExtractorFails(cred) /\ ~VerifierFails(cred)
NoPermissionsEntry(cred) == cred.auth.parts[2] = "noperms"
Granted(cred) ==
    CASE cred.auth.parts[2] = "manager" -> Permissions
      [] cred.auth.parts[2] = "barista" -> {"get:drinks-detail"}
      [] OTHER -> {}

\* C1: a protected request whose token extraction or verification fails is
\* answered 401 whatever status the failing stage chose; when both succeed,
\* a claim set without a permissions entry is answered 400 and a permissions
\* list without the required permission 401.
C1_GuardStatus ==
    \A p \in Workers :
        Answered(p) =>
            /\ ~Authenticated(req[p].cred) => resp[p].status = 401
            /\ (Authenticated(req[p].cred) /\ NoPermissionsEntry(req[p].cred))
                  => resp[p].status = 400
            /\ (Authenticated(req[p].cred)
                   /\ ~NoPermissionsEntry(req[p].cred)
                   /\ RequiredPermission(req[p].op) \notin Granted(req[p].cred))
                  => resp[p].status = 401

\* A request with an unknown key id, for which the verifier chose 400, is
\* answered 401.
C1_Witness ==
    \E p \in Workers :
        /\ Answered(p)
        /\ req[p].cred = Cred(Header(<<"Bearer", "otherkid">>), JwksUp)
        /\ verify_decode_jwt("otherkid", JwksUp).status = 400
        /\ resp[p].status = 401

\* C2: a protected handler runs only in a request whose extraction,
\* verification and permission check succeeded, and a request the guard
\* answers leaves the drink table as it was.
C2_GuardFirst ==
    /\ [](\A p \in Workers :
            (pc[p] \in {"handler", "mutate", "respond"} /\ req[p].op \in Protected)
               => /\ Authenticated(req[p].cred)
                  /\ RequiredPermission(req[p].op) \in Granted(req[p].cred))
    /\ [][\A p \in Workers :
            (pc[p] = "guard" /\ pc'[p] = "done")
               => table' = table /\ resp'[p].status \in {400, 401}]_vars
    /\ [][table' # table
            => \E p \in Workers :
                  /\ pc[p] = "mutate" /\ pc'[p] \in {"respond", "done"}
                  /\ Authenticated(req[p].cred)
                  /\ RequiredPermission(req[p].op) \in Granted(req[p].cred)]_vars

\* A delete of an existing drink without the permission was refused and
\* the drink is still there.
C2_Witness ==
    \E p \in Workers :
        /\ Answered(p)
        /\ req[p].op = "drinks_delete"
        /\ req[p].cred = Cred(Header(<<"Bearer", "barista">>), JwksUp)
        /\ resp[p].status = 401
        /\ req[p].id \in Ids(table)

\* C9 as claimed: every DELETE /drinks/<id> that does not succeed is
\* answered 401, 404 or 422, whatever fails.
C9_DeleteFailureCodes ==
    \A p \in Workers :
        (pc[p] = "done" /\ req[p].op = "drinks_delete" /\ resp[p].status # 200)
            => resp[p].status \in {401, 404, 422}

\* ------------------------------------------------------------------------
\* Properties of the handlers
\* ------------------------------------------------------------------------
\* The fields a request submits (JNone for a field it omits).
Submitted(p, key) ==
    IF req[p].payload.kind = "json" THEN body_get(req[p].payload.fields, key) ELSE JNone
TitlesOf(t) == {r.title : r \in t}
RowsTitled(t, title) == {r \in t : r.title = title}

\* Worker p takes the step from position from to position to.
Moves(p, from, to) == pc[p] = from /\ pc'[p] = to

\* C3 as claimed: a create whose title is the title of a row of the table
\* ends with 400 and inserts no second row, also when another create with
\* that title inserted its row after this one's lookup (the database itself
\* not failing).
C3_DuplicateAlways400 ==
    [][\A p \in Workers :
         (/\ req[p].op = "drinks_create"
          /\ pc[p] \in {"handler", "mutate"} /\ pc'[p] = "done"
          /\ ~resp'[p].fault
          /\ Submitted(p, "title").s \in TitlesOf(table))
            => /\ resp'[p].status = 400
               /\ Cardinality(RowsTitled(table', Submitted(p, "title").s)) = 1]_vars

\* C3 amended: a create whose title is in the table when its lookup runs
\* ends there with 400 (500 when the database fails at the lookup); one
\* whose title came into the table after its lookup ends with 422; neither
\* changes the table, so no second row with the title is inserted.
C3_DuplicateCreate ==
    [][\A p \in Workers :
         (/\ req[p].op = "drinks_create"
          /\ pc[p] \in {"handler", "mutate"} /\ pc'[p] # pc[p]
          /\ Submitted(p, "title").s \in TitlesOf(table))
            => /\ pc'[p] = "done"
               /\ resp'[p].status = (IF pc[p] = "mutate" THEN 422
                                     ELSE IF resp'[p].fault THEN 500 ELSE 400)
               /\ table' = table
               /\ Cardinality(RowsTitled(table', Submitted(p, "title").s)) = 1]_vars

\* Two creates with one title passed the lookup together: one inserted the
\* row, the other ended with 422 though the database itself did not fail.
C3_Witness ==
    \E p, q \in Workers :
        /\ p # q
        /\ pc[p] = "done" /\ req[p].op = "drinks_create" /\ resp[p].status = 200
        /\ pc[q] = "done" /\ req[q].op = "drinks_create" /\ resp[q].status = 422
        /\ ~resp[q].fault
        /\ Submitted(p, "title") = Submitted(q, "title")
        /\ Cardinality(RowsTitled(table, Submitted(q, "title").s)) = 1

\* C4: a delete for an id that matches no row ends with 404 and leaves the
\* table unchanged; for an id that matches a row, the delete removes the
\* row with that id and no other and answers 200 with the id.  When the
\* database itself fails the table is unchanged and the answer is 500 (at
\* the lookup) or 422 (at the commit).
C4_Delete ==
    /\ [][\A p \in Workers :
            (req[p].op = "drinks_delete" /\ pc[p] = "handler" /\ pc'[p] # pc[p])
               => /\ table' = table
                  /\ IF resp'[p].fault
                     THEN pc'[p] = "done" /\ resp'[p].status = 500
                     ELSE IF req[p].id \in Ids(table)
                     THEN pc'[p] = "mutate"
                     ELSE pc'[p] = "done" /\ resp'[p].status = 404]_vars
    /\ [][\A p \in Workers :
            (req[p].op = "drinks_delete" /\ Moves(p, "mutate", "done"))
               => IF resp'[p].fault
                  THEN resp'[p].status = 422 /\ table' = table
                  ELSE /\ resp'[p].status = 200
                       /\ resp'[p].delete = req[p].id
                       /\ table' = {r \in table : r.id # req[p].id}]_vars

\* One delete found no row and ended with 404, another removed its row.
C4_Witness ==
    \E p, q \in Workers :
        /\ p # q
        /\ pc[p] = "done" /\ req[p].op = "drinks_delete" /\ resp[p].status = 404
        /\ pc[q] = "done" /\ req[q].op = "drinks_delete" /\ resp[q].status = 200
        /\ resp[q].delete = req[q].id
        /\ req[q].id \notin Ids(table)
        /\ table # {}

\* The fields of a patch are both omitted, or one is the empty string.
OmittedOrBlank(p) ==
    /\ req[p].payload.kind = "json"
    /\ \/ Submitted(p, "title") = JNone /\ Submitted(p, "recipe") = JNone
       \/ Submitted(p, "title") = JStr("")
       \/ Submitted(p, "recipe") = JStr("")

\* C5 as claimed: an authorized patch with both fields omitted, or with a
\* field that is the empty string, ends with 400 whether or not the id
\* matches a row, and leaves the table unchanged.
C5_PatchValidation ==
    [][\A p \in Workers :
         (/\ req[p].op = "drinks_patch"
          /\ pc[p] = "handler" /\ pc'[p] # pc[p]
          /\ OmittedOrBlank(p))
            => /\ pc'[p] = "done"
               /\ resp'[p].status = 400
               /\ table' = table]_vars

\* C6 as claimed: GET /drinks answers 404 exactly when the table is empty
\* and otherwise 200 with one short entry per row (the database not
\* failing).
C6_ListStatus ==
    [][\A p \in Workers :
         (req[p].op = "drinks" /\ Moves(p, "handler", "done") /\ ~resp'[p].fault)
            => /\ resp'[p].status = 404 <=> table = {}
               /\ table # {}
                    => /\ resp'[p].status = 200
                       /\ Len(resp'[p].drinks) = Cardinality(table)]_vars

\* The recipe a row's long form shows.
LongRecipe(r) == long(r).value.recipe

\* C7 as claimed: a successful create returns the submitted recipe in the
\* long form, and the long form of a row shows another recipe only after a
\* patch of that row that supplies it.
C7_RecipeRoundTrip ==
    /\ [](\A p \in Workers :
            (pc[p] = "done" /\ req[p].op = "drinks_create" /\ resp[p].status = 200)
               => /\ Len(resp[p].drinks) = 1
                  /\ resp[p].drinks[1].recipe = Submitted(p, "recipe")
                  /\ resp[p].drinks[1].title = Submitted(p, "title").s)
    /\ [][\A r \in table : \A r2 \in table' :
            (r2.id = r.id /\ LongRecipe(r2) # LongRecipe(r))
               => \E p \in Workers :
                     /\ req[p].op = "drinks_patch" /\ req[p].id = r.id
                     /\ Moves(p, "mutate", "respond")
                     /\ Submitted(p, "recipe") # JNone
                     /\ LongRecipe(r2) = Submitted(p, "recipe")]_vars
    /\ [][\A p \in Workers : \A r2 \in table' \ table :
            (req[p].op = "drinks_create" /\ Moves(p, "mutate", "respond"))
               => LongRecipe(r2) = Submitted(p, "recipe")]_vars

\* A JSON value is a sequence of ingredient records.
IsIngredientList(v) ==
    /\ v.t = "list"
    /\ \A j \in 1..Len(v.items) :
          /\ v.items[j].t = "dict"
          /\ HasKey(v.items[j], "name")
          /\ HasKey(v.items[j], "color")
          /\ HasKey(v.items[j], "parts")

\* C8 as claimed: the recipe of every stored drink deserializes to a
\* sequence of ingredient records, and the short form is defined for it.
C8_RecipeShape ==
    \A r \in table : IsIngredientList(json_loads(r.recipe)) /\ short(r).ok

\* C10 as claimed: a create, update or delete that ends in its try block
\* with a failure is answered 422 with its session rolled back and has
\* changed no row: the request did not commit (it is not past its commit
\* when it fails) and the table is as it was.
C10_Rollback ==
    [][\A p \in Workers :
         (/\ pc[p] \in {"mutate", "respond"} /\ pc'[p] = "done"
          /\ resp'[p].status # 200)
            => /\ resp'[p].status = 422
               /\ session'[p] = <<>>
               /\ pc[p] = "mutate"
               /\ table' = table]_vars

\* C11: a patch changes the table at its commit and nowhere else, and is
\* answered 200 only after it; the commit changes at most the row with the
\* request's id, and on it only the fields the request supplies, each of
\* which keeps its value or takes the submitted one; no request changes the
\* id of a row; every other row is unchanged.
C11_PatchFrame ==
    /\ [][\A p \in Workers :
            (req[p].op = "drinks_patch" /\ Moves(p, "mutate", "respond"))
               => \/ table' = table
                  \/ \E old \in table : \E new \in table' :
                        /\ old.id = req[p].id /\ new.id = req[p].id
                        /\ new.title \in {old.title} \cup
                              (IF Submitted(p, "title") = JNone
                               THEN {} ELSE {Submitted(p, "title").s})
                        /\ new.recipe \in {old.recipe} \cup
                              (IF Submitted(p, "recipe") = JNone
                               THEN {} ELSE {json_dumps(Submitted(p, "recipe"))})
                        /\ table' \ {new} = table \ {old}]_vars
    /\ [][\A p \in Workers :
            (req[p].op = "drinks_patch" /\ pc'[p] # pc[p])
               => /\ Ids(table') = Ids(table)
                  /\ Moves(p, "mutate", "respond") \/ table' = table
                  /\ (pc'[p] = "done" /\ resp'[p].status = 200) => pc[p] = "respond"]_vars
    /\ [][\A r2 \in table' \ table :
            \/ \E r \in table \ table' : r.id = r2.id
            \/ r2.id = NextId(table) /\ r2.id \notin Ids(table)]_vars

\* A patch that supplied the title alone succeeded: the row has the new
\* title and the recipe of the start-up drink, and the other start-up drink
\* is as it was.
C11_Witness ==
    \E p \in Workers :
        /\ pc[p] = "done" /\ req[p].op = "drinks_patch" /\ resp[p].status = 200
        /\ req[p].id = 1
        /\ Submitted(p, "title") = JStr("Latte")
        /\ Submitted(p, "recipe") = JNone
        /\ Row(1, "Latte", DummyRecipe1) \in table
        /\ Row(2, "White Coffee2", DummyRecipe2) \in table

\* Another row than the one with the request's id has the title the
\* request submits.
TitleTaken(p, t) ==
    \E r \in t : r.id # req[p].id /\ r.title = Submitted(p, "title").s

\* C12 as claimed: no two rows of the table have the same title, whatever
\* the interleaving of creates, updates and deletes; a patch that submits,
\* for a drink of the table, the title of another drink passes the checks
\* of the handler (no 400; the database not failing at the lookup), fails
\* at its commit with 422 and changes no row.
C12_UniqueTitles ==
    /\ [](\A r1, r2 \in table : r1.title = r2.title => r1 = r2)
    /\ [][\A p \in Workers :
            (/\ req[p].op = "drinks_patch"
             /\ pc[p] = "handler" /\ pc'[p] # pc[p]
             /\ ~OmittedOrBlank(p)
             /\ req[p].id \in Ids(table)
             /\ TitleTaken(p, table)
             /\ ~resp'[p].fault)
               => pc'[p] = "mutate" /\ table' = table]_vars
    /\ [][\A p \in Workers :
            (/\ req[p].op = "drinks_patch"
             /\ pc[p] = "mutate" /\ pc'[p] # pc[p]
             /\ req[p].id \in Ids(table)
             /\ TitleTaken(p, table))
               => pc'[p] = "done" /\ resp'[p].status = 422 /\ table' = table]_vars
====
